---- MODULE Spec2Model ----
(***************************************************************************)
(* Model of sdpqpy.py: the lazily computed, persisted SDP relaxation of a   *)
(* lattice model (LatticeModel / SecondQuantizedModel / BoseHubbardModel).  *)
(*                                                                         *)
(* Python's None is the empty sequence << >>, a present value v is <<v>>;   *)
(* object references are heap indices, the null reference is NoRef.         *)
(* File names and suffixes are real strings built as the code builds them.  *)
(***************************************************************************)
EXTENDS Integers, Sequences, FiniteSets, TLC

VARIABLES cfg, heap, sdpRelaxation, outdatedSdpRelaxation, hamiltonian,
          substitutions, outputDir, dirExists, store, op, log, err, ret,
          calls, faults, solved, fpA, fpB, fpOut

vars == <<cfg, heap, sdpRelaxation, outdatedSdpRelaxation, hamiltonian,
          substitutions, outputDir, dirExists, store, op, log, err, ret,
          calls, faults, solved, fpA, fpB, fpOut>>

modelVars == <<cfg, heap, sdpRelaxation, outdatedSdpRelaxation, hamiltonian,
               substitutions, outputDir, dirExists, store, op, log, err, ret,
               calls, faults, solved>>

fpVars == <<fpA, fpB, fpOut>>

----------------------------------------------------------------------------
(* Bounds of the model *)

\* coupling constants mu, t, U range over 0..MaxCoupling
MaxCoupling == 1
\* constraint values n, nmin, nmax, localNmax range over 1..MaxConstraint
MaxConstraint == 1
\* relaxation levels: the sentinel -1 and 1..MaxLevel
MaxLevel == 1
\* setter calls (configuration changes) in one behaviour
MaxCalls == 1
\* damages to the output directory in one behaviour
MaxFaults == 1
\* keywords given in one setter call
MaxKwargs == 1

None == << >>
Some(v) == <<v>>
NoRef == 0
Ids == {1, 2}

Couplings == 0..MaxCoupling
ConstraintVals == {Some(v) : v \in 1..MaxConstraint}
OptConstraintVals == ConstraintVals \cup {None}
Levels == {-1} \cup (1..MaxLevel)

----------------------------------------------------------------------------
(* Configuration of a model instance *)

\* LatticeModel.__init__, SecondQuantizedModel.__init__ and
\* BoseHubbardModel.__init__: the attributes after construction
BoseHubbardInit(length, width, periodic, window) ==
    [model |-> "Bose", lattice_length |-> length, lattice_width |-> width,
     periodic |-> Some(periodic),
     window_length |-> IF window = 0 THEN length ELSE window,
     level |-> -1, mu |-> 0, t |-> 0, h |-> 0, U |-> 1,
     n |-> None, nmax |-> None, nmin |-> None, localNmax |-> None]

\* FermiHubbardModel.__init__: all couplings 0 and _periodic overwritten by None
FermiHubbardInit(length, width, periodic, window) ==
    [model |-> "Fermi", lattice_length |-> length, lattice_width |-> width,
     periodic |-> None,
     window_length |-> IF window = 0 THEN length ELSE window,
     level |-> -1, mu |-> 0, t |-> 0, h |-> 0, U |-> 0,
     n |-> None, nmax |-> None, nmin |-> None, localNmax |-> None]

\* str() of an integer or of None
Str(x) == IF x = None THEN "None" ELSE ToString(x[1])

\* truth value of self._periodic in "if self._periodic:"
Truthy(p) == p # None /\ p[1] # 0

\* the part of the suffix that getSuffix of every model appends
ConstraintSuffix(c) ==
    (IF c.n # None THEN "_n=" \o Str(c.n) ELSE "") \o
    (IF c.nmax # None THEN "_nmax=" \o Str(c.nmax) ELSE "") \o
    (IF c.nmin # None THEN "_nmin=" \o Str(c.nmin) ELSE "") \o
    (IF c.localNmax # None THEN "_localnmax=" \o Str(c.localNmax) ELSE "")

StructureSuffix(c) ==
    (IF Truthy(c.periodic) THEN "_periodic=" \o Str(c.periodic) ELSE "") \o
    (IF c.window_length # c.lattice_length
        THEN "_window=" \o ToString(c.window_length) ELSE "") \o
    "_level=" \o ToString(c.level)

LatSuffix(c) ==
    "_lat=" \o ToString(c.lattice_length) \o "x" \o ToString(c.lattice_width)

\* getShortSuffix with the constraint part of getSuffix
getShortSuffix_withConstraints(c) ==
    LatSuffix(c) \o ConstraintSuffix(c) \o StructureSuffix(c)

\* SecondQuantizedModel.getShortSuffix
getShortSuffix(c) == LatSuffix(c) \o StructureSuffix(c)

\* BoseHubbardModel.getSuffix
BoseGetSuffix(c) ==
    LatSuffix(c) \o "_mu=" \o ToString(c.mu) \o "_t=" \o ToString(c.t) \o
    ConstraintSuffix(c) \o StructureSuffix(c)

\* FermiHubbardModel.getSuffix
FermiGetSuffix(c) ==
    LatSuffix(c) \o "_periodic=" \o Str(c.periodic) \o
    "_mu=" \o ToString(c.mu) \o "_t=" \o ToString(c.t) \o
    "_h=" \o ToString(c.h) \o "_U=" \o ToString(c.U) \o
    ConstraintSuffix(c) \o StructureSuffix(c)

\* getSuffix, dispatched on the class of the instance
getSuffix(c) == IF c.model = "Bose" THEN BoseGetSuffix(c) ELSE FermiGetSuffix(c)

----------------------------------------------------------------------------
(* The world: the instance's attributes and the output directory.  Every    *)
(* method is an operator from worlds to worlds; w.err is the exception that *)
(* is propagating ("none" while the call runs normally), w.log the events   *)
(* of the running top-level call.                                           *)

World ==
    [cfg |-> cfg, heap |-> heap, sdp |-> sdpRelaxation,
     outdated |-> outdatedSdpRelaxation, ham |-> hamiltonian,
     subs |-> substitutions, outputDir |-> outputDir,
     dirExists |-> dirExists, store |-> store,
     log |-> << >>, err |-> "none", ret |-> None, signal |-> None]

\* KeyboardInterrupt and SystemExit, which the handlers re-raise
Terminations == {"KeyboardInterrupt", "SystemExit"}

\* the termination signal that arrives in this call while it is at the
\* step named at, if any
SignalAt(w, at) == w.signal # None /\ w.signal[1].at = at

Raise(w, e) == [w EXCEPT !.err = e]
Emit(w, e, s) == [w EXCEPT !.log = Append(@, [ev |-> e, st |-> s])]

\* the object a reference points to
Obj(w, ref) == w.heap[ref][1]

\* the lists createSdp builds from the constraint attributes:
\* inequalities from localNmax, momentinequalities from n, nmax and nmin
Constraints(c) ==
    [equalities |-> << >>,
     inequalities |-> c.localNmax,
     momentinequalities |-> <<c.n, c.nmax, c.nmin>>]

\* paths of the two pickle files
FullPath(w) == w.outputDir[1] \o "/" \o "sdpRelaxation" \o getSuffix(w.cfg) \o ".pickle"
ShortPath(w) == w.outputDir[1] \o "/" \o "sdpRelaxation" \o getShortSuffix(w.cfg) \o ".pickle"

\* open(path, 'rb') followed by pickle.load: the exception raised, or the
\* unpickled copy.  The path expression itself raises TypeError when
\* _outputDir is None.
ReadPath(w, path) ==
    IF ~w.dirExists \/ path \notin DOMAIN w.store
       THEN [exc |-> "IOError", val |-> None]
    ELSE IF w.store[path].kind = "empty"
       THEN [exc |-> "EOFError", val |-> None]
    ELSE IF w.store[path].kind = "garbage"
       THEN [exc |-> "UnpicklingError", val |-> None]
    ELSE [exc |-> "none", val |-> Some(w.store[path].art)]

\* both reads of loadSdp with the path of getShortSuffix()
ReadFile_alwaysShort(w, full) ==
    IF w.outputDir = None THEN [exc |-> "TypeError", val |-> None]
    ELSE ReadPath(w, ShortPath(w))

\* one read of loadSdp: of the file of getSuffix() or of getShortSuffix()
ReadFile(w, full) ==
    IF SignalAt(w, IF full THEN "readFull" ELSE "readShort")
       THEN [exc |-> w.signal[1].exc, val |-> None]
    ELSE IF w.outputDir = None THEN [exc |-> "TypeError", val |-> None]
    ELSE ReadPath(w, IF full THEN FullPath(w) ELSE ShortPath(w))

\* the second read of loadSdp, in the handler of the bare except: its
\* result, an exception included, is the result of loadSdp
LoadSecond(w, ev, r) == [w |-> Emit(w, ev, r.exc), exc |-> r.exc, val |-> r.val]

\* the first read of loadSdp with the bare except as the only handler
LoadFirst_catchesAll(w, ev, r, ev2, full2) ==
    IF r.exc = "none"
       THEN [w |-> Emit(w, ev, "none"), exc |-> "none", val |-> r.val]
       ELSE LoadSecond(Emit(w, ev, r.exc), ev2, ReadFile(w, full2))

\* the first read of loadSdp: its value is returned, KeyboardInterrupt and
\* SystemExit are raised again, any other exception starts the second read
LoadFirst(w, ev, r, ev2, full2) ==
    IF r.exc = "none" \/ r.exc \in Terminations
       THEN [w |-> Emit(w, ev, r.exc), exc |-> r.exc, val |-> r.val]
       ELSE LoadSecond(Emit(w, ev, r.exc), ev2, ReadFile(w, full2))

\* loadSdp with the two reads in the opposite order
loadSdp_shortFirst(w) == LoadFirst(w, "readShort", ReadFile(w, FALSE), "readFull", TRUE)

\* LatticeModel.loadSdp: the file of getSuffix() first; on any exception
\* (bare except) the file of getShortSuffix()
loadSdp(w) == LoadFirst(w, "readFull", ReadFile(w, TRUE), "readShort", FALSE)

\* os.mkdir(self._outputDir) if the directory is missing
Mkdir(w) ==
    IF w.dirExists THEN w ELSE Emit([w EXCEPT !.dirExists = TRUE], "mkdir", "")

\* pickle.dump(sdpRelaxation, handle) into the file at path
Dump(w, art, path) ==
    Emit([w EXCEPT !.store = (path :> [kind |-> "pickle", art |-> art]) @@ @],
         "write", path)

\* the path with the test of the status negated
PicklePath_negated(w, art) ==
    IF art.status # "unsolved" THEN ShortPath(w) ELSE FullPath(w)

\* the path pickleSdp writes to: of getShortSuffix() for an unsolved
\* relaxation, of getSuffix() for any other
PicklePath(w, art) ==
    IF art.status = "unsolved" THEN ShortPath(w) ELSE FullPath(w)

\* LatticeModel.pickleSdp: nothing without an output directory
pickleSdp(w, art) ==
    IF w.outputDir = None
       THEN Emit(w, "pickleSdp", art.status)
       ELSE Dump(Mkdir(Emit(w, "pickleSdp", art.status)), art, PicklePath(w, art))

\* getSubstitutions without the test of the cache
getSubstitutions_uncached(w) ==
    Emit([w EXCEPT !.subs = Some(w.cfg.lattice_length * w.cfg.lattice_width)],
         "createSubstitutions", "")

\* LatticeModel.getSubstitutions
getSubstitutions(w) ==
    IF w.subs = None
       THEN Emit([w EXCEPT !.subs = Some(w.cfg.lattice_length * w.cfg.lattice_width)],
                 "createSubstitutions", "")
       ELSE w

\* BoseHubbardModel.createHamiltonian: a function of U, mu and t
createHamiltonian(c) == [U |-> c.U, mu |-> c.mu, t |-> c.t]

\* getHamiltonian without the test of the cache
getHamiltonian_uncached(w) ==
    Emit([w EXCEPT !.ham = Some(createHamiltonian(w.cfg))], "createHamiltonian", "")

\* LatticeModel.getHamiltonian
getHamiltonian(w) ==
    IF w.ham = None
       THEN Emit([w EXCEPT !.ham = Some(createHamiltonian(w.cfg))],
                 "createHamiltonian", "")
       ELSE w

\* sdpRelaxation.process_constraints of the solver library on success: the
\* constraint rows are replaced in place; whether the library also resets
\* the status is not fixed by this repository (env.resets)
process_constraints(art, cons, env) ==
    [art EXCEPT !.cons = cons,
                !.status = IF env.resets THEN "unsolved" ELSE @]

\* RdmHierarchy(...) followed by get_relaxation(level, ...)
get_relaxation(c) ==
    [status |-> "unsolved", level |-> c.level, cons |-> Constraints(c),
     obj |-> None, primal |-> None, dual |-> None]

\* createMonomials() is called when the level is the sentinel -1
Monomials(w) ==
    IF w.cfg.level = -1 THEN Emit(w, "createMonomials", "") ELSE w

Generated(w) ==
    [w |-> Emit(w, "get_relaxation", ToString(w.cfg.level)),
     exc |-> "none", ref |-> NoRef, val |-> Some(get_relaxation(w.cfg))]

\* the except branch of createSdp: generate from scratch
GenerateFromScratch(w) == Generated(getSubstitutions(Monomials(w)))

\* a successful process_constraints on the candidate: a loaded copy (val)
\* or the outdated object (ref), which is changed in place
Recycled(w, ref, val, env) ==
    IF val # None
       THEN [w |-> Emit(w, "process_constraints", "ok"), exc |-> "none", ref |-> NoRef,
             val |-> Some(process_constraints(val[1], Constraints(w.cfg), env))]
       ELSE [w |-> Emit([w EXCEPT !.heap[ref] =
                            Some(process_constraints(Obj(w, ref), Constraints(w.cfg), env))],
                        "process_constraints", "ok"),
             exc |-> "none", ref |-> ref, val |-> None]

\* createSdp with "except AttributeError:" around process_constraints: an
\* exception of the library leaves createSdp
Recycle_narrowHandler(w, ref, val, env) ==
    IF (ref # NoRef \/ val # None) /\ SignalAt(w, "process_constraints")
       THEN [w |-> Emit(w, "process_constraints", w.signal[1].exc),
             exc |-> w.signal[1].exc, ref |-> NoRef, val |-> None]
    ELSE IF ref = NoRef /\ val = None
       THEN GenerateFromScratch(Emit(w, "process_constraints", "AttributeError"))
    ELSE IF env.adapt = "fail"
       THEN [w |-> Emit(w, "process_constraints", "fail"),
             exc |-> "Exception", ref |-> NoRef, val |-> None]
       ELSE Recycled(w, ref, val, env)

\* createSdp that generates from scratch without trying the candidate
Recycle_alwaysGenerates(w, ref, val, env) == GenerateFromScratch(w)

\* the second half of createSdp: recycle the candidate or, when there is
\* none (None.process_constraints raises AttributeError) or the library
\* raises, generate from scratch (bare except); KeyboardInterrupt and
\* SystemExit in process_constraints are raised again
Recycle(w, ref, val, env) ==
    IF (ref # NoRef \/ val # None) /\ SignalAt(w, "process_constraints")
       THEN [w |-> Emit(w, "process_constraints", w.signal[1].exc),
             exc |-> w.signal[1].exc, ref |-> NoRef, val |-> None]
    ELSE IF (ref = NoRef /\ val = None) \/ env.adapt = "fail"
       THEN GenerateFromScratch(
                Emit(w, "process_constraints",
                     IF ref = NoRef /\ val = None THEN "AttributeError" ELSE "fail"))
       ELSE Recycled(w, ref, val, env)

\* createSdp without the early return of a loaded solved relaxation
AfterLoad_noEarlyReturn(l, outdatedRef, env) ==
    IF l.exc \in {"none", "IOError", "EOFError"}
       THEN Recycle(l.w, IF l.exc = "none" THEN NoRef ELSE outdatedRef, l.val, env)
       ELSE [w |-> l.w, exc |-> l.exc, ref |-> NoRef, val |-> None]

\* createSdp that prefers the outdated relaxation to a loaded unsolved one
AfterLoad_outdatedFirst(l, outdatedRef, env) ==
    IF l.exc = "none" /\ l.val[1].status # "unsolved"
       THEN [w |-> l.w, exc |-> "none", ref |-> NoRef, val |-> l.val]
    ELSE IF l.exc \in {"none", "IOError", "EOFError"}
       THEN Recycle(l.w, outdatedRef, IF outdatedRef # NoRef THEN None ELSE l.val, env)
    ELSE [w |-> l.w, exc |-> l.exc, ref |-> NoRef, val |-> None]

\* createSdp after loadSdp: a loaded solved relaxation is returned; a loaded
\* unsolved one is the candidate; after IOError or EOFError the outdated
\* object is; any other exception leaves createSdp
AfterLoad(l, outdatedRef, env) ==
    IF l.exc = "none" /\ l.val[1].status # "unsolved"
       THEN [w |-> l.w, exc |-> "none", ref |-> NoRef, val |-> l.val]
    ELSE IF l.exc \in {"none", "IOError", "EOFError"}
       THEN Recycle(l.w, IF l.exc = "none" THEN NoRef ELSE outdatedRef, l.val, env)
    ELSE [w |-> l.w, exc |-> l.exc, ref |-> NoRef, val |-> None]

\* SecondQuantizedModel.createSdp.  The result is the outdated object
\* (ref) or a new object (val); exc is the exception that leaves createSdp.
createSdp(w, outdatedRef, env) ==
    AfterLoad(loadSdp(Emit(w, "createSdp", "")), outdatedRef, env)

\* a heap index that no attribute refers to
FreeId(w) == CHOOSE i \in Ids : i # w.sdp /\ i # w.outdated /\
                 \A j \in Ids : (j # w.sdp /\ j # w.outdated) => i <= j

\* self.__sdpRelaxation = createSdp(...)
Assign(r) ==
    IF r.ref # NoRef
       THEN [r.w EXCEPT !.sdp = r.ref]
       ELSE [r.w EXCEPT !.heap[FreeId(r.w)] = r.val, !.sdp = FreeId(r.w)]

\* self.pickleSdp(self.__sdpRelaxation)
PickleSlot(w) == pickleSdp(w, Obj(w, w.sdp))

\* getSdp without "self.pickleSdp(self.__sdpRelaxation)"
Fill_noPickle(r) == IF r.exc # "none" THEN Raise(r.w, r.exc) ELSE Assign(r)

\* getSdp with an empty slot, after createSdp
Fill(r) == IF r.exc # "none" THEN Raise(r.w, r.exc) ELSE PickleSlot(Assign(r))

\* getSdp without the test of the slot
getSdp_uncached(w, env) == Fill(createSdp(w, w.outdated, env))

\* LatticeModel.getSdp
getSdp(w, env) ==
    IF w.sdp # NoRef THEN w ELSE Fill(createSdp(w, w.outdated, env))

\* LatticeModel.invalidateSolution
invalidateSolution(w) ==
    IF w.sdp # NoRef
       THEN [w EXCEPT !.heap[w.sdp] = Some([Obj(w, w.sdp) EXCEPT !.status = "unsolved"])]
       ELSE w

\* invalidateSdp without the assignment to __outdatedSdpRelaxation
invalidateSdp_dropping(w) == invalidateSolution([w EXCEPT !.sdp = NoRef])

\* LatticeModel.invalidateSdp
invalidateSdp(w) ==
    invalidateSolution(IF w.sdp # NoRef
                          THEN [w EXCEPT !.outdated = w.sdp, !.sdp = NoRef]
                          ELSE w)

\* invalidateHamiltonian without "self.__hamiltonian = None"
invalidateHamiltonian_keepsValue(w) == invalidateSdp(w)

\* LatticeModel.invalidateHamiltonian
invalidateHamiltonian(w) == [invalidateSdp(w) EXCEPT !.ham = None]

\* sdpRelaxation.solve of the solver library on success: the solution of the
\* problem the object describes (its structure, its constraint rows and the
\* objective attached to it)
Solution(art) == Some([obj |-> art.obj[1], cons |-> art.cons, level |-> art.level])

SolverRun(art) ==
    [art EXCEPT !.status = "solved", !.primal = Solution(art), !.dual = Solution(art)]

\* self.__sdpRelaxation.set_objective(self.getHamiltonian())
SetObjective(w) ==
    [w EXCEPT !.heap[w.sdp] = Some([Obj(w, w.sdp) EXCEPT !.obj = w.ham])]

\* solve with the exception of the solver swallowed
RunSolver_swallows(w, env) ==
    IF env.solver = "fail"
       THEN PickleSlot(Emit(w, "solver", "fail"))
       ELSE PickleSlot(Emit([w EXCEPT !.heap[w.sdp] = Some(SolverRun(Obj(w, w.sdp)))],
                            "solver", "ok"))

\* self.__sdpRelaxation.solve(solver=self._solver) and the pickleSdp after it
RunSolver(w, env) ==
    IF env.solver = "fail"
       THEN Raise(Emit(w, "solver", "fail"), "SolverError")
       ELSE PickleSlot(Emit([w EXCEPT !.heap[w.sdp] = Some(SolverRun(Obj(w, w.sdp)))],
                            "solver", "ok"))

\* solve without the test of the status
SolveSlot_ignoresStatus(w, env) ==
    IF w.err # "none" THEN w ELSE RunSolver(SetObjective(getHamiltonian(w)), env)

\* solve after its getSdp()
SolveSlot(w, env) ==
    IF w.err # "none" \/ Obj(w, w.sdp).status # "unsolved"
       THEN w
       ELSE RunSolver(SetObjective(getHamiltonian(w)), env)

\* LatticeModel.solve
solve(w, env) == SolveSlot(getSdp(w, env), env)

\* return self.__sdpRelaxation.primal (or .dual)
ReturnField(w, field) ==
    IF w.err # "none" THEN w ELSE [w EXCEPT !.ret = Obj(w, w.sdp)[field]]

\* the test that makes getPrimal and getDual call solve()
Unsolved(w, field) == w.sdp = NoRef \/ Obj(w, w.sdp)[field] = None

\* LatticeModel.getPrimal (getEnergy returns getPrimal())
getPrimal(w, env) ==
    ReturnField(IF Unsolved(w, "primal") THEN solve(w, env) ELSE w, "primal")

\* LatticeModel.getDual
getDual(w, env) ==
    ReturnField(IF Unsolved(w, "dual") THEN solve(w, env) ELSE w, "dual")

----------------------------------------------------------------------------
(* Setters *)

\* **kwargs: a function from the keywords given to their values
Keywords(keys) == {K \in SUBSET keys : Cardinality(K) <= MaxKwargs}
Kwargs(keys, vals) == UNION {[K -> vals] : K \in Keywords(keys)}

\* the keywords setParameters of the class looks at
CouplingsOf(model) ==
    IF model = "Fermi" THEN {"mu", "t", "h", "U"} ELSE {"mu", "t", "U"}

\* one "if key in kwargs:" block of setParameters
SetCoupling(w, kwargs, key) ==
    IF key \in DOMAIN kwargs /\ key \in CouplingsOf(w.cfg.model)
       THEN invalidateHamiltonian([w EXCEPT !.cfg[key] = kwargs[key]])
       ELSE w

\* BoseHubbardModel.setParameters (mu, t, U) and
\* FermiHubbardModel.setParameters (mu, t, h, U)
setParameters(w, kwargs) ==
    SetCoupling(SetCoupling(SetCoupling(SetCoupling(
        w, kwargs, "mu"), kwargs, "t"), kwargs, "h"), kwargs, "U")

\* the block without the comparison with the present value
SetConstraint_unconditional(w, kwargs, key) ==
    IF key \in DOMAIN kwargs
       THEN [invalidateSdp(w) EXCEPT !.cfg[key] = kwargs[key]]
       ELSE w

\* one "if key in kwargs and self.key != kwargs.get(key):" block
SetConstraint(w, kwargs, key) ==
    IF key \in DOMAIN kwargs /\ w.cfg[key] # kwargs[key]
       THEN [invalidateSdp(w) EXCEPT !.cfg[key] = kwargs[key]]
       ELSE w

\* SecondQuantizedModel.setConstraints
setConstraints(w, kwargs) ==
    SetConstraint(SetConstraint(SetConstraint(SetConstraint(
        w, kwargs, "localNmax"), kwargs, "n"), kwargs, "nmin"), kwargs, "nmax")

\* one "if key in kwargs and self.key is not None:" block
UnsetConstraint(w, keys, key) ==
    IF key \in keys /\ w.cfg[key] # None
       THEN invalidateSdp([w EXCEPT !.cfg[key] = None])
       ELSE w

\* SecondQuantizedModel.unsetConstraints
unsetConstraints(w, keys) ==
    UnsetConstraint(UnsetConstraint(UnsetConstraint(UnsetConstraint(
        w, keys, "localNmax"), keys, "n"), keys, "nmin"), keys, "nmax")

\* setLevel calling invalidateHamiltonian() in place of invalidateSdp()
setLevel_viaHamiltonian(w, level) == [invalidateHamiltonian(w) EXCEPT !.cfg.level = level]

\* SecondQuantizedModel.setLevel
setLevel(w, level) == [invalidateSdp(w) EXCEPT !.cfg.level = level]

----------------------------------------------------------------------------
(* The instance as a state machine: one action per public method *)

\* the keywords the calls of this state machine give
CouplingKeys == {"mu", "U"}
ConstraintKeys == {"localNmax", "n"}

\* outcomes of the calls into the solver library
\* (resets says whether a successful process_constraints resets the status)
Envs == {e \in [adapt : {"ok", "fail"}, resets : BOOLEAN, solver : {"ok", "fail"}] :
            e.adapt = "fail" => ~e.resets}
\* the solver does not run in getSdp
SdpEnvs == {e \in Envs : e.solver = "ok"}

\* objects that no attribute refers to are gone
Collect(w) == [i \in Ids |-> IF i = w.sdp \/ i = w.outdated THEN w.heap[i] ELSE None]

\* history: the configurations for which the solver has run successfully,
\* each with the relaxation object as that run left it
SolverSucceeded(events) ==
    \E i \in 1..Len(events) : events[i] = [ev |-> "solver", st |-> "ok"]

Setters == {"setParameters", "setConstraints", "unsetConstraints", "setLevel"}

Commit(w, name, arg) ==
    /\ name \in Setters => calls < MaxCalls
    /\ calls' = IF name \in Setters THEN calls + 1 ELSE calls
    /\ name # "damage" => UNCHANGED faults
    /\ solved' = IF SolverSucceeded(w.log)
                    THEN (w.cfg :> Obj(w, w.sdp)) @@ solved
                    ELSE solved
    /\ cfg' = w.cfg
    /\ heap' = Collect(w)
    /\ sdpRelaxation' = w.sdp
    /\ outdatedSdpRelaxation' = w.outdated
    /\ hamiltonian' = w.ham
    /\ substitutions' = w.subs
    /\ outputDir' = w.outputDir
    /\ dirExists' = w.dirExists
    /\ store' = w.store
    /\ op' = [name |-> name, arg |-> arg]
    /\ log' = w.log
    /\ err' = w.err
    /\ ret' = w.ret
    /\ UNCHANGED fpVars

\* the value a getter returns: the relaxation object in the slot
ReturnSdp(w) == IF w.err = "none" THEN [w EXCEPT !.ret = w.heap[w.sdp]] ELSE w

\* LatticeModel.__init__ ... BoseHubbardModel.__init__ for a 4x1 lattice with
\* open boundary; the output directory is the one of earlier instances
Construct(dir, files, exists) ==
    /\ cfg = BoseHubbardInit(4, 1, 0, 0)
    /\ heap = [i \in Ids |-> None]
    /\ sdpRelaxation = NoRef
    /\ outdatedSdpRelaxation = NoRef
    /\ hamiltonian = None
    /\ substitutions = None
    /\ outputDir = dir
    /\ dirExists = exists
    /\ store = files
    /\ op = [name |-> "init", arg |-> None]
    /\ log = << >>
    /\ err = "none"
    /\ ret = None
    /\ calls = 0
    /\ faults = 0
    /\ solved = << >>

NoFingerprints ==
    /\ fpA = None
    /\ fpB = None
    /\ fpOut = None

Init ==
    /\ \E dir \in {Some("out"), None} : Construct(dir, << >>, FALSE)
    /\ NoFingerprints

\* a new process: a new instance over the same output directory
NewInstance ==
    /\ op.name # "init"
    /\ Commit([World EXCEPT !.cfg = BoseHubbardInit(4, 1, 0, 0),
                            !.heap = [i \in Ids |-> None],
                            !.sdp = NoRef, !.outdated = NoRef,
                            !.ham = None, !.subs = None],
              "init", None)

GetSdp == \E env \in SdpEnvs : Commit(ReturnSdp(getSdp(World, env)), "getSdp", None)

Solve == \E env \in Envs : Commit(solve(World, env), "solve", None)

GetPrimal == \E env \in Envs : Commit(getPrimal(World, env), "getPrimal", None)

GetDual == \E env \in Envs : Commit(getDual(World, env), "getDual", None)

\* the value a cached getter returns
ReturnAttr(w, attr) == [w EXCEPT !.ret = w[attr]]

GetHamiltonian ==
    Commit(ReturnAttr(getHamiltonian(World), "ham"), "getHamiltonian", None)

GetSubstitutions ==
    Commit(ReturnAttr(getSubstitutions(World), "subs"), "getSubstitutions", None)

SetParameters ==
    \E kwargs \in Kwargs(CouplingKeys, Couplings) :
        Commit(setParameters(World, kwargs), "setParameters", kwargs)

SetConstraints ==
    \E kwargs \in Kwargs(ConstraintKeys, OptConstraintVals) :
        Commit(setConstraints(World, kwargs), "setConstraints", kwargs)

UnsetConstraints ==
    \E keys \in Keywords(ConstraintKeys) :
        Commit(unsetConstraints(World, keys), "unsetConstraints", keys)

SetLevel ==
    \E level \in Levels : Commit(setLevel(World, level), "setLevel", level)

InvalidateSdp == Commit(invalidateSdp(World), "invalidateSdp", None)

InvalidateHamiltonian ==
    Commit(invalidateHamiltonian(World), "invalidateHamiltonian", None)

Next ==
    \/ NewInstance
    \/ GetSdp
    \/ Solve
    \/ GetPrimal
    \/ GetDual
    \/ GetHamiltonian
    \/ GetSubstitutions
    \/ SetParameters
    \/ SetConstraints
    \/ UnsetConstraints
    \/ SetLevel
    \/ InvalidateSdp
    \/ InvalidateHamiltonian

Spec == Init /\ [][Next]_vars

----------------------------------------------------------------------------
(* Damage to the output directory between two runs of the program: a file  *)
(* of the current configuration is removed, cut to nothing, or overwritten *)
(* by bytes that do not unpickle                                           *)

\* what happens to one file
Damaged(files, path, how) ==
    IF how = "keep" THEN files
    ELSE IF how = "absent" THEN [q \in DOMAIN files \ {path} |-> files[q]]
    ELSE (path :> [kind |-> how, art |-> None]) @@ files

Damage ==
    /\ faults < MaxFaults
    /\ op.name = "init"
    /\ outputDir # None /\ dirExists
    /\ \E full \in {"keep", "absent", "empty", "garbage"},
          short \in {"keep", "absent", "empty", "garbage"} :
          /\ <<full, short>> # <<"keep", "keep">>
          /\ faults' = faults + 1
          /\ Commit([World EXCEPT !.store =
                        Damaged(Damaged(store, FullPath(World), full),
                                ShortPath(World), short)],
                    "damage", <<full, short>>)

NextFaulty == Next \/ Damage

SpecFaulty == Init /\ [][NextFaulty]_vars

----------------------------------------------------------------------------
(* Termination signals: KeyboardInterrupt or SystemExit arrives while a     *)
(* getSdp() call reads a file or adapts the recycle candidate               *)

Signals ==
    [at : {"readFull", "readShort", "process_constraints"}, exc : Terminations]

GetSdpInterrupted ==
    \E sig \in Signals, env \in SdpEnvs :
        Commit(ReturnSdp(getSdp([World EXCEPT !.signal = Some(sig)], env)),
               "getSdp", Some(sig))

NextSignal == Next \/ GetSdpInterrupted

SpecSignal == Init /\ [][NextSignal]_vars

----------------------------------------------------------------------------
(* The persistence round trip: a caller pickles a relaxation the instance   *)
(* holds and loads under the same configuration                             *)

\* the value loadSdp returns, or the exception it raises
ReturnLoad(l) ==
    IF l.exc = "none" THEN [l.w EXCEPT !.ret = l.val] ELSE Raise(l.w, l.exc)

RoundTrip ==
    \E ref \in {sdpRelaxation, outdatedSdpRelaxation} \ {NoRef} :
        Commit(ReturnLoad(loadSdp(pickleSdp(World, Obj(World, ref)))),
               "roundTrip", heap[ref])

NextRoundTrip == Next \/ RoundTrip

SpecRoundTrip == Init /\ [][NextRoundTrip]_vars

----------------------------------------------------------------------------
(* Repeated constraints: a caller gives setConstraints the value a          *)
(* constraint has (a parameter scan that sets the constraints in each run)  *)

\* the keyword arguments that repeat the present value of one constraint
Repeats(c) == {key :> c[key] : key \in ConstraintKeys}

RepeatConstraints ==
    \E kwargs \in Repeats(cfg) :
        Commit(setConstraints(World, kwargs), "repeatConstraints", kwargs)

NextRepeat == Next \/ RepeatConstraints

SpecRepeat == Init /\ [][NextRepeat]_vars

----------------------------------------------------------------------------
(* The fingerprints as functions of the configuration: fpA is an instance  *)
(* after construction and setLevel, fpB the same instance after further     *)
(* setParameters, setConstraints and unsetConstraints calls                 *)

AllCouplingKeys == {"mu", "t", "h", "U"}
AllConstraintKeys == {"localNmax", "n", "nmin", "nmax"}

Fingerprints(a, b) ==
    [fullA |-> getSuffix(a), fullB |-> getSuffix(b),
     shortA |-> getShortSuffix(a), shortB |-> getShortSuffix(b)]

FpCommit(a, b) ==
    /\ fpA' = Some(a)
    /\ fpB' = Some(b)
    /\ fpOut' = Some(Fingerprints(a, b))
    /\ UNCHANGED modelVars

InitFP ==
    /\ Construct(Some("out"), << >>, FALSE)
    /\ \E model \in {"Bose", "Fermi"}, periodic \in {0, 1, -1}, window \in {0, 2} :
          /\ fpA = Some(IF model = "Bose" THEN BoseHubbardInit(4, 1, periodic, window)
                                          ELSE FermiHubbardInit(4, 1, periodic, window))
          /\ fpB = fpA
          /\ fpOut = Some(Fingerprints(fpA[1], fpB[1]))

FpSetLevel ==
    \E level \in Levels :
        FpCommit(setLevel([World EXCEPT !.cfg = fpA[1]], level).cfg,
                 setLevel([World EXCEPT !.cfg = fpB[1]], level).cfg)

FpSetParameters ==
    \E kwargs \in Kwargs(AllCouplingKeys, Couplings) :
        FpCommit(fpA[1], setParameters([World EXCEPT !.cfg = fpB[1]], kwargs).cfg)

FpSetConstraints ==
    \E kwargs \in Kwargs(AllConstraintKeys, OptConstraintVals) :
        FpCommit(fpA[1], setConstraints([World EXCEPT !.cfg = fpB[1]], kwargs).cfg)

FpUnsetConstraints ==
    \E keys \in Keywords(AllConstraintKeys) :
        FpCommit(fpA[1], unsetConstraints([World EXCEPT !.cfg = fpB[1]], keys).cfg)

NextFP ==
    \/ FpSetLevel
    \/ FpSetParameters
    \/ FpSetConstraints
    \/ FpUnsetConstraints

SpecFP == InitFP /\ [][NextFP]_vars

----------------------------------------------------------------------------
(* Properties *)

HasEvent(events, e) == \E i \in 1..Len(events) : events[i].ev = e
HasOutcome(events, e, s) == \E i \in 1..Len(events) : events[i] = [ev |-> e, st |-> s]

\* the relaxation object in the slot
Current == heap[sdpRelaxation][1]

\* the writes of the pickleSdp call that starts at event i
WritesOf(i) ==
    {j \in (i + 1)..Len(log) :
        /\ log[j].ev = "write"
        /\ \A k \in (i + 1)..j : log[k].ev # "pickleSdp"}

\* C1: every pickleSdp call of an instance with an output directory writes
\* exactly one file: the file of the short fingerprint of the current
\* configuration if the relaxation it is given is unsolved, the file of the
\* full fingerprint otherwise; the file then holds a relaxation of that status
C1_PickleKey ==
    \A i \in 1..Len(log) :
        (log[i].ev = "pickleSdp" /\ outputDir # None) =>
            /\ Cardinality(WritesOf(i)) = 1
            /\ ShortPath(World) # FullPath(World)
            /\ \A j \in WritesOf(i) :
                  /\ (log[i].st = "unsolved") <=> (log[j].st = ShortPath(World))
                  /\ (log[i].st # "unsolved") <=> (log[j].st = FullPath(World))
                  /\ store[log[j].st].kind = "pickle"
                  /\ store[log[j].st].art.status = log[i].st

\* a call that pickled an unsolved and then a solved relaxation
C1_Witness ==
    /\ op.name = "solve"
    /\ HasOutcome(log, "pickleSdp", "unsolved")
    /\ HasOutcome(log, "pickleSdp", "solved")
    /\ HasOutcome(log, "write", ShortPath(World))
    /\ HasOutcome(log, "write", FullPath(World))

\* C2: every load reads the file of the full fingerprint first; the file of
\* the short fingerprint is read only directly after a failed read of the
\* full one, and never after a successful one
C2_ReadOrder ==
    \A i \in 1..Len(log) :
        /\ log[i].ev = "createSdp" =>
              (i < Len(log) /\ log[i + 1].ev = "readFull")
        /\ log[i].ev = "readShort" =>
              (i > 1 /\ log[i - 1].ev = "readFull" /\ log[i - 1].st # "none")
        /\ (log[i].ev = "readFull" /\ log[i].st = "none") =>
              ~HasEvent(log, "readShort")
        /\ (log[i].ev = "readFull" /\ log[i].st # "none") =>
              (i < Len(log) /\ log[i + 1].ev = "readShort")

\* a load that missed the full-fingerprint file and then read the
\* short-fingerprint file
C2_Witness ==
    /\ HasOutcome(log, "readFull", "IOError")
    /\ HasOutcome(log, "readShort", "none")

\* the file of the full fingerprint of configuration c
FullPathOf(c) == FullPath([World EXCEPT !.cfg = c])

C3_Stored ==
    \A c \in DOMAIN solved :
        /\ FullPathOf(c) \in DOMAIN store
        /\ store[FullPathOf(c)] = [kind |-> "pickle", art |-> solved[c]]
        /\ solved[c].status = "solved"

C3_Reuse ==
    (op'.name \in {"getSdp", "solve"} /\ cfg \in DOMAIN solved) =>
        /\ err' = "none"
        /\ cfg' = cfg
        /\ heap'[sdpRelaxation'] = Some(solved[cfg])
        /\ ~HasEvent(log', "process_constraints")
        /\ ~HasEvent(log', "get_relaxation")
        /\ ~HasEvent(log', "solver")

\* C3: once the solver has succeeded for a configuration, the solved
\* relaxation is in the file of that configuration's full fingerprint, and
\* every later getSdp() or solve() of an instance with that configuration
\* gives that relaxation without process_constraints, without generating from
\* scratch and without running the solver
C3_SolvedIsReused == []C3_Stored /\ [][C3_Reuse]_vars

\* a fresh instance that got the solved relaxation from the file
C3_Witness ==
    /\ op.name \in {"getSdp", "solve"}
    /\ cfg \in DOMAIN solved
    /\ outdatedSdpRelaxation = NoRef
    /\ HasOutcome(log, "readFull", "none")
    /\ Current = solved[cfg]

\* the relaxation was loaded solved from the full-fingerprint file
LoadedSolved(events) ==
    HasOutcome(events, "readFull", "none") /\ ~HasEvent(events, "process_constraints")

\* C4: the getSdp() that follows a setter which left the slot invalidated
\* returns an unsolved relaxation, unless it is a solved one loaded from the
\* full-fingerprint file of the new configuration
C4_UnsolvedAfterSetter ==
    [][(/\ op.name \in Setters
        /\ sdpRelaxation = NoRef
        /\ outdatedSdpRelaxation # NoRef
        /\ op'.name = "getSdp"
        /\ err' = "none")
       => (heap'[sdpRelaxation'][1].status = "unsolved" \/ LoadedSolved(log'))]_vars

\* the solution of the problem of the current configuration
SolutionOf(c) ==
    Some([obj |-> createHamiltonian(c), cons |-> Constraints(c), level |-> c.level])

\* C5: the value getPrimal() or getDual() returns is the result of a solver
\* run for the current couplings, constraints and relaxation level
C5_ValueOfCurrentConfiguration ==
    (op.name \in {"getPrimal", "getDual"} /\ err = "none") => ret = SolutionOf(cfg)

C6_Step ==
    /\ (op'.name = "setParameters" /\ DOMAIN op'.arg # {}) =>
          (hamiltonian' = None /\ sdpRelaxation' = NoRef)
    /\ (hamiltonian = None /\ op'.name = "getHamiltonian") =>
          (HasEvent(log', "createHamiltonian") /\ ret' = Some(createHamiltonian(cfg)))
    /\ (sdpRelaxation = NoRef /\ op'.name = "getSdp") =>
          HasEvent(log', "createSdp")

\* C6: a setParameters call that names a coupling empties the cached
\* Hamiltonian and the relaxation slot; with an empty cache getHamiltonian()
\* calls createHamiltonian and getSdp() calls createSdp
C6_ParametersInvalidate == [][C6_Step]_vars

\* getHamiltonian() creating the Hamiltonian again after a setParameters
\* call that invalidated a relaxation with an objective attached
C6_Witness ==
    /\ op.name = "getHamiltonian"
    /\ HasEvent(log, "createHamiltonian")
    /\ calls > 0
    /\ sdpRelaxation = NoRef
    /\ outdatedSdpRelaxation # NoRef
    /\ heap[outdatedSdpRelaxation][1].obj # None
    /\ heap[outdatedSdpRelaxation][1].obj # hamiltonian

C7_Step ==
    /\ op'.name \in {"setConstraints", "unsetConstraints", "setLevel"} =>
          (hamiltonian' = hamiltonian /\ substitutions' = substitutions)
    /\ op'.name = "setLevel" => sdpRelaxation' = NoRef
    /\ (hamiltonian # None /\ op'.name = "getHamiltonian") =>
          (~HasEvent(log', "createHamiltonian") /\ ret' = hamiltonian)
    /\ (substitutions # None /\ op'.name = "getSubstitutions") =>
          (~HasEvent(log', "createSubstitutions") /\ ret' = substitutions)

\* C7: setConstraints, unsetConstraints and setLevel leave the cached
\* Hamiltonian and the cached substitutions as they are, and a getter of a
\* cached value returns it without calling the factory
C7_ConstraintsKeepObjective == [][C7_Step]_vars

\* a constraint or level setter that invalidated the relaxation of an
\* instance with cached Hamiltonian and substitutions
C7_Witness ==
    /\ op.name \in {"setConstraints", "unsetConstraints", "setLevel"}
    /\ hamiltonian # None
    /\ substitutions # None
    /\ sdpRelaxation = NoRef
    /\ outdatedSdpRelaxation # NoRef

\* the two configurations differ in a coupling of their class or in a constraint
Differ(a, b) ==
    \E key \in CouplingsOf(a.model) \cup AllConstraintKeys : a[key] # b[key]

SameStructure(a, b) ==
    \A key \in {"model", "lattice_length", "lattice_width", "periodic",
                "window_length", "level"} : a[key] = b[key]

\* C8: two configurations with the same structural parameters that differ in
\* a coupling or in a constraint have different full fingerprints
C8_FullFingerprintInjective ==
    (fpOut # None /\ Differ(fpA[1], fpB[1])) => fpOut[1].fullA # fpOut[1].fullB

\* C9: setParameters, setConstraints and unsetConstraints change no
\* structural parameter and leave the short fingerprint as it was
C9_ShortFingerprintShared ==
    fpOut # None =>
        /\ SameStructure(fpA[1], fpB[1])
        /\ fpOut[1].shortA = fpOut[1].shortB

\* configurations that differ in a coupling and in a constraint
C9_Witness ==
    /\ fpOut # None
    /\ \E key \in CouplingsOf(fpA[1].model) : fpA[1][key] # fpB[1][key]
    /\ \E key \in AllConstraintKeys : fpA[1][key] # fpB[1][key]
    /\ fpOut[1].shortA = getShortSuffix(fpB[1])

\* C10: getSdp() of an instance with an output directory raises no error,
\* whatever is missing, cut or undeserializable in the directory
C10_NoErrorFromGetSdp ==
    (op.name = "getSdp" /\ outputDir # None) => (err = "none" /\ sdpRelaxation # NoRef)

\* the call ended with KeyboardInterrupt or SystemExit raised at its last event
EndsInTermination(events, e) ==
    /\ e \in Terminations
    /\ events # << >>
    /\ events[Len(events)].st = e
    /\ \A i \in 1..(Len(events) - 1) : events[i].st \notin Terminations

C11_Step ==
    op'.name = "getSdp" =>
        /\ (\E i \in 1..Len(log') : log'[i].st \in Terminations) =>
               EndsInTermination(log', err')
        /\ err' \in Terminations =>
               /\ EndsInTermination(log', err')
               /\ sdpRelaxation' = NoRef
               /\ store' = store
               /\ dirExists' = dirExists
               /\ ret' = None

\* C11: a KeyboardInterrupt or SystemExit raised in the read of the
\* full-fingerprint file, in the read of the short-fingerprint file or in
\* process_constraints leaves getSdp() at once: it is the error of the call,
\* no read, rebuild or write follows it, the slot stays empty and the
\* output directory is as it was
C11_TerminationPropagates == [][C11_Step]_vars

\* a signal in the read of the short-fingerprint file, after the read of the
\* full-fingerprint file failed, with a relaxation in the outdated slot
C11_Witness ==
    /\ op.name = "getSdp"
    /\ err \in Terminations
    /\ HasOutcome(log, "readFull", "IOError")
    /\ HasOutcome(log, "readShort", err)
    /\ outdatedSdpRelaxation # NoRef

\* the methods that run the solver
Solving == {"solve", "getPrimal", "getDual"}

C12_Step ==
    /\ (op'.name \in Solving /\ HasOutcome(log', "solver", "fail")) =>
          /\ err' = "SolverError"
          /\ sdpRelaxation' # NoRef
          /\ heap'[sdpRelaxation'][1].status = "unsolved"
          /\ outputDir # None =>
                /\ ~HasOutcome(log', "write", FullPath(World))
                /\ FullPath(World) \in DOMAIN store' => FullPath(World) \in DOMAIN store
                /\ FullPath(World) \in DOMAIN store => store'[FullPath(World)] = store[FullPath(World)]
    /\ (op.name \in Solving /\ err = "SolverError" /\ op'.name = "solve") =>
          /\ ~HasEvent(log', "createSdp")
          /\ HasEvent(log', "solver")
          /\ sdpRelaxation' = sdpRelaxation

\* C12: a failure of the solver in solve() is the error of the call, the
\* relaxation stays in the slot with status unsolved, the file of the full
\* fingerprint is not written, and the next solve() runs the solver again on
\* the relaxation in the slot
C12_SolverFailure == [][C12_Step]_vars

\* after a failed solver run: the objective is attached, the relaxation is
\* unsolved and in the slot, no solved file exists
C12_Witness ==
    /\ op.name = "solve"
    /\ err = "SolverError"
    /\ outputDir # None
    /\ sdpRelaxation # NoRef
    /\ Current.status = "unsolved"
    /\ Current.obj = hamiltonian
    /\ hamiltonian # None
    /\ FullPath(World) \notin DOMAIN store
    /\ ShortPath(World) \in DOMAIN store

\* C13: pickleSdp(a) followed by loadSdp() under the same configuration
\* returns a relaxation with the status and the constraints of a
C13_RoundTrip ==
    op.name = "roundTrip" =>
        /\ err = "none"
        /\ ret # None
        /\ ret[1].status = op.arg[1].status
        /\ ret[1].cons = op.arg[1].cons

\* the file of the full fingerprint can be read and unpickled
FullReadable ==
    /\ dirExists
    /\ FullPath(World) \in DOMAIN store
    /\ store[FullPath(World)].kind = "pickle"

C13_Step ==
    (op'.name = "roundTrip" /\ outputDir # None) =>
        /\ err' = "none"
        /\ ret' = IF op'.arg[1].status = "unsolved" /\ FullReadable
                     THEN Some(store[FullPath(World)].art)
                     ELSE op'.arg

\* C13 as amended: with an output directory, pickleSdp(a) followed by
\* loadSdp() returns a relaxation equal to a if a is not unsolved, or if a is
\* unsolved and the file of the full fingerprint cannot be read; if a is
\* unsolved and that file can be read, loadSdp() returns the content of that
\* file
C13_RoundTripAmended == [][C13_Step]_vars

\* a solved relaxation that came back from the file of the full fingerprint
\* while the file of the short fingerprint held an unsolved one
C13_Witness ==
    /\ op.name = "roundTrip"
    /\ err = "none"
    /\ ret = op.arg
    /\ op.arg[1].status = "solved"
    /\ HasOutcome(log, "write", FullPath(World))
    /\ HasOutcome(log, "readFull", "none")
    /\ ShortPath(World) \in DOMAIN store
    /\ store[ShortPath(World)].art.status = "unsolved"

\* number of calls of a factory in one top-level call
Count(events, e) == Cardinality({i \in 1..Len(events) : events[i].ev = e})

\* the calls that invalidate the Hamiltonian (or start with none)
InvalidatesHamiltonian == {"setParameters", "invalidateHamiltonian", "init"}

C14_Step ==
    /\ Count(log', "createHamiltonian") <= 1
    /\ (hamiltonian # None /\ op'.name \notin InvalidatesHamiltonian) =>
          (Count(log', "createHamiltonian") = 0 /\ hamiltonian' = hamiltonian)
    /\ Count(log', "createHamiltonian") = 1 =>
          (hamiltonian = None /\ hamiltonian' = Some(createHamiltonian(cfg)))
    /\ op'.name = "getHamiltonian" =>
          /\ hamiltonian' # None
          /\ ret' = hamiltonian'
          /\ hamiltonian = None => Count(log', "createHamiltonian") = 1
    /\ HasEvent(log', "solver") =>
          (hamiltonian' # None /\ heap'[sdpRelaxation'][1].obj = hamiltonian')

\* C14: while the Hamiltonian is not invalidated, createHamiltonian is called
\* only by the first getHamiltonian(), once, and every getHamiltonian(), those
\* of solve() included, gives the cached value
C14_HamiltonianOnce == [][C14_Step]_vars

\* a solver run with the Hamiltonian an earlier call had created
C14_Witness ==
    /\ op.name = "solve"
    /\ HasOutcome(log, "solver", "ok")
    /\ ~HasEvent(log, "createHamiltonian")
    /\ hamiltonian = Some(createHamiltonian(cfg))
    /\ Current.obj = hamiltonian

\* the calls that may invalidate the relaxation (or start with none)
InvalidatesSdp == Setters \cup {"invalidateSdp", "invalidateHamiltonian", "init"}

\* the calls that start with getSdp()
CallsGetSdp == Solving \cup {"getSdp"}

C15_Step ==
    /\ Count(log', "createSdp") <= 1
    /\ (sdpRelaxation # NoRef /\ op'.name \notin InvalidatesSdp) =>
          /\ Count(log', "createSdp") = 0
          /\ sdpRelaxation' = sdpRelaxation
          /\ op'.name = "getSdp" =>
                (err' = "none" /\ ret' = heap[sdpRelaxation] /\ heap' = heap)
    /\ Count(log', "createSdp") = 1 =>
          (sdpRelaxation = NoRef /\ op'.name \in CallsGetSdp)
    /\ (sdpRelaxation = NoRef /\ op'.name \in CallsGetSdp) =>
          /\ Count(log', "createSdp") = 1
          /\ (sdpRelaxation' = NoRef) <=> (err' \notin {"none", "SolverError"})
          /\ (op'.name = "getSdp" /\ err' = "none") => ret' = heap'[sdpRelaxation']

\* C15: while the relaxation is not invalidated, createSdp is called only by
\* the first getSdp(), once, and every later getSdp(), those of solve()
\* included, gives the object in the slot; when createSdp raises the slot
\* stays empty and the next getSdp() calls createSdp again
C15_SdpOnce == [][C15_Step]_vars

\* getSdp() answered from the slot, which an earlier call has filled and
\* the solver has solved
C15_Witness ==
    /\ op.name = "getSdp"
    /\ log = << >>
    /\ sdpRelaxation # NoRef
    /\ ret = heap[sdpRelaxation]
    /\ Current.status = "solved"

\* the events of the call from the createSdp event on
FromCreateSdp(events) ==
    SubSeq(events, CHOOSE i \in 1..Len(events) : events[i].ev = "createSdp", Len(events))

\* a pickleSdp with its write comes before any solver run
PickledFirst(events) ==
    \E i \in 1..Len(events) :
        /\ events[i].ev = "pickleSdp"
        /\ i < Len(events)
        /\ events[i + 1].ev \in {"mkdir", "write"}
        /\ \A j \in 1..i : events[j].ev # "solver"

NoConstraints(c) == \A key \in AllConstraintKeys : c[key] = None

C16_Step ==
    /\ (/\ op'.name \in CallsGetSdp
        /\ HasEvent(log', "createSdp")
        /\ sdpRelaxation' # NoRef
        /\ outputDir # None) =>
          /\ dirExists'
          /\ PickledFirst(FromCreateSdp(log'))
          /\ ~dirExists => HasEvent(log', "mkdir")
          /\ op'.name = "getSdp" =>
                store'[PicklePath(World, heap'[sdpRelaxation'][1])] =
                    [kind |-> "pickle", art |-> heap'[sdpRelaxation'][1]]
    /\ (/\ op'.name = "getSdp"
        /\ err' = "none"
        /\ store = << >>
        /\ NoConstraints(cfg)) =>
          /\ store' = (ShortPath(World) :>
                          [kind |-> "pickle", art |-> get_relaxation(cfg)])
          /\ (cfg.level = 1 /\ outputDir = Some("out")) =>
                ShortPath(World) = "out/sdpRelaxation_lat=4x1_level=1.pickle"

\* C16: with an output directory, a getSdp() that called createSdp and got
\* a relaxation pickles it before it returns and creates the directory if it
\* is missing; after the first getSdp() over an empty directory with no
\* constraint set the only file is the one of the short fingerprint, with an
\* unsolved relaxation (lattice 4x1, open boundary, level 1: _lat=4x1_level=1)
C16_PickledBeforeReturn == [][C16_Step]_vars

\* the first getSdp() of a 4x1 instance at level 1 over an empty directory
C16_Witness ==
    /\ op.name = "getSdp"
    /\ cfg.level = 1
    /\ HasEvent(log, "mkdir")
    /\ Current.status = "unsolved"
    /\ store = ("out/sdpRelaxation_lat=4x1_level=1.pickle" :>
                    [kind |-> "pickle", art |-> Current])

\* the calls that always call invalidateSdp()
AlwaysInvalidate == {"invalidateSdp", "invalidateHamiltonian", "setLevel"}

C17_Step ==
    op'.name \in InvalidatesSdp \ {"init"} =>
        /\ op'.name \in AlwaysInvalidate => sdpRelaxation' = NoRef
        /\ (sdpRelaxation # NoRef /\ sdpRelaxation' = NoRef) =>
              /\ outdatedSdpRelaxation' = sdpRelaxation
              /\ heap'[outdatedSdpRelaxation'] = heap[sdpRelaxation]
        /\ sdpRelaxation' # NoRef =>
              /\ sdpRelaxation' = sdpRelaxation
              /\ outdatedSdpRelaxation' = outdatedSdpRelaxation
              /\ heap' = heap
        /\ sdpRelaxation = NoRef =>
              /\ sdpRelaxation' = NoRef
              /\ outdatedSdpRelaxation' = outdatedSdpRelaxation
              /\ heap' = heap

\* C17: an invalidation with a relaxation in the slot moves that object to
\* the outdated slot and empties the slot; an invalidation with an empty
\* slot leaves the outdated slot and its object as they were
C17_InvalidationKeeps == [][C17_Step]_vars

\* an invalidation with an empty slot after one that moved a solved
\* relaxation to the outdated slot
C17_Witness ==
    /\ op.name \in AlwaysInvalidate
    /\ log = << >>
    /\ sdpRelaxation = NoRef
    /\ outdatedSdpRelaxation # NoRef
    /\ heap[outdatedSdpRelaxation][1].status = "solved"
    /\ heap[outdatedSdpRelaxation][1].primal # None

\* C18: when process_constraints on the recycle candidate raises, createSdp
\* generates from scratch: get_relaxation runs with the current level, the
\* current constraints and the substitutions, the result is a new unsolved
\* object, and no error of the adaptation reaches the caller
C18_RebuildAfterFailedRecycle ==
    (op.name \in CallsGetSdp /\ HasOutcome(log, "process_constraints", "fail")) =>
        /\ err \in {"none", "SolverError"}
        /\ HasOutcome(log, "get_relaxation", ToString(cfg.level))
        /\ substitutions # None
        /\ sdpRelaxation # NoRef
        /\ sdpRelaxation # outdatedSdpRelaxation
        /\ Current.level = cfg.level
        /\ Current.cons = Constraints(cfg)
        /\ op.name = "getSdp" =>
              /\ err = "none"
              /\ ret = Some(get_relaxation(cfg))
              /\ Current = get_relaxation(cfg)

\* the outdated relaxation of another level was the candidate, its
\* adaptation failed and a relaxation of the new level was generated
C18_Witness ==
    /\ op.name = "getSdp"
    /\ HasOutcome(log, "readShort", "IOError")
    /\ HasOutcome(log, "process_constraints", "fail")
    /\ outdatedSdpRelaxation # NoRef
    /\ heap[outdatedSdpRelaxation][1].level # cfg.level
    /\ ret = Some(get_relaxation(cfg))

\* loadSdp returned a relaxation
Loaded(events) ==
    HasOutcome(events, "readFull", "none") \/ HasOutcome(events, "readShort", "none")

\* the relaxation loadSdp returns in this state
LoadedArt ==
    IF FullReadable THEN store[FullPath(World)].art ELSE store[ShortPath(World)].art

\* new is art after a successful process_constraints with the current constraints
AdaptedFrom(art, new) ==
    \E env \in Envs : new = process_constraints(art, Constraints(cfg), env)

\* the candidate is the loaded unsolved relaxation; the outdated one is not touched
C19_Loaded ==
    /\ ~HasOutcome(log', "process_constraints", "AttributeError")
    /\ outdatedSdpRelaxation' = outdatedSdpRelaxation
    /\ outdatedSdpRelaxation # NoRef =>
          /\ sdpRelaxation' # outdatedSdpRelaxation
          /\ heap'[outdatedSdpRelaxation] = heap[outdatedSdpRelaxation]
    /\ IF HasOutcome(log', "process_constraints", "ok")
          THEN /\ ~HasEvent(log', "get_relaxation")
               /\ AdaptedFrom(LoadedArt, heap'[sdpRelaxation'][1])
          ELSE /\ HasEvent(log', "get_relaxation")
               /\ heap'[sdpRelaxation'][1] = get_relaxation(cfg)

\* the candidate is the outdated relaxation
C19_Outdated ==
    /\ ~HasOutcome(log', "process_constraints", "AttributeError")
    /\ IF HasOutcome(log', "process_constraints", "ok")
          THEN /\ ~HasEvent(log', "get_relaxation")
               /\ sdpRelaxation' = outdatedSdpRelaxation
               /\ AdaptedFrom(heap[outdatedSdpRelaxation][1], heap'[sdpRelaxation'][1])
          ELSE /\ HasEvent(log', "get_relaxation")
               /\ sdpRelaxation' # outdatedSdpRelaxation
               /\ heap'[sdpRelaxation'][1] = get_relaxation(cfg)

\* there is no candidate
C19_NoCandidate ==
    /\ HasOutcome(log', "process_constraints", "AttributeError")
    /\ ~HasOutcome(log', "process_constraints", "ok")
    /\ HasEvent(log', "get_relaxation")
    /\ heap'[sdpRelaxation'][1] = get_relaxation(cfg)

C19_Step ==
    (/\ sdpRelaxation = NoRef
     /\ op'.name = "getSdp"
     /\ err' = "none"
     /\ ~LoadedSolved(log')) =>
        IF Loaded(log') THEN C19_Loaded
        ELSE IF outdatedSdpRelaxation # NoRef THEN C19_Outdated
        ELSE C19_NoCandidate

\* C19: when createSdp loaded no solved relaxation, process_constraints is
\* tried on the loaded unsolved relaxation if loadSdp returned one (the
\* outdated one is then left alone), else on the outdated relaxation if there
\* is one, else on nothing; without candidate the relaxation is generated
\* from scratch; a candidate adapted with success is the result and nothing
\* is generated
C19_RecycleCandidate == [][C19_Step]_vars

\* a loaded unsolved relaxation was adapted while an outdated one was there
C19_Witness ==
    /\ op.name = "getSdp"
    /\ err = "none"
    /\ HasOutcome(log, "readShort", "none")
    /\ HasOutcome(log, "process_constraints", "ok")
    /\ ~HasEvent(log, "get_relaxation")
    /\ outdatedSdpRelaxation # NoRef
    /\ sdpRelaxation # outdatedSdpRelaxation
    /\ Current.cons # heap[outdatedSdpRelaxation][1].cons

\* the object at heap index i was unsolved and is not any more
BecameSolved(i) ==
    /\ heap[i] # None
    /\ heap'[i] # None
    /\ heap[i][1].status = "unsolved"
    /\ heap'[i][1].status # "unsolved"

C20_Step ==
    /\ \A i \in Ids :
          BecameSolved(i) =>
              /\ op'.name \in Solving
              /\ i = sdpRelaxation'
              /\ HasOutcome(log', "solver", "ok")
              /\ hamiltonian' # None
              /\ heap'[i][1].obj = hamiltonian'
              /\ heap'[i][1].primal # None
    /\ \A i \in Ids :
          (heap[i] = None /\ heap'[i] # None /\ heap'[i][1].status # "unsolved") =>
              \/ Loaded(log')
              \/ op'.name \in Solving /\ HasOutcome(log', "solver", "ok")
    /\ (/\ op'.name = "solve"
        /\ sdpRelaxation # NoRef
        /\ heap[sdpRelaxation][1].status # "unsolved") =>
          /\ log' = << >>
          /\ err' = "none"
          /\ store' = store
          /\ heap' = heap
          /\ sdpRelaxation' = sdpRelaxation
    /\ (op'.name = "solve" /\ LoadedSolved(log')) => ~HasEvent(log', "solver")

\* C20: the status of a relaxation object changes from unsolved to solved
\* only in solve() (also when getPrimal or getDual call it), after the
\* Hamiltonian was attached and the solver ran with success; solve() with a
\* solved relaxation in the slot runs no solver and writes nothing
C20_SolvedOnlyBySolve == [][C20_Step]_vars

\* solve() that found a solved relaxation in the slot
C20_Witness ==
    /\ op.name = "solve"
    /\ log = << >>
    /\ err = "none"
    /\ sdpRelaxation # NoRef
    /\ Current.status = "solved"
    /\ outputDir # None
    /\ store[FullPath(World)].art = Current

C21_Step ==
    /\ Count(log', "createSubstitutions") <= 1
    /\ Count(log', "createSubstitutions") = 1 =>
          (op'.name = "init" \/ substitutions = None)
    /\ (substitutions # None /\ op'.name # "init") =>
          /\ substitutions' = substitutions
          /\ Count(log', "createSubstitutions") = 0
    /\ (substitutions = None /\ substitutions' # None) =>
          /\ Count(log', "createSubstitutions") = 1
          /\ op'.name = "getSubstitutions" \/ HasEvent(log', "get_relaxation")
    /\ op'.name = "getSubstitutions" =>
          (substitutions' # None /\ ret' = substitutions')
    /\ HasEvent(log', "get_relaxation") => substitutions' # None

\* C21: createSubstitutions is called at most once in the life of an
\* instance: once the substitutions are cached, no getter, setter,
\* invalidation, getSdp() or solve() calls it again, empties the cache or
\* replaces the cached value
C21_SubstitutionsOnce == [][C21_Step]_vars

\* a relaxation generated from scratch, after a setter, with the
\* substitutions an earlier call had cached
C21_Witness ==
    /\ op.name \in CallsGetSdp
    /\ calls > 0
    /\ HasEvent(log, "get_relaxation")
    /\ ~HasEvent(log, "createSubstitutions")
    /\ substitutions # None
    /\ outdatedSdpRelaxation # NoRef

\* the calls of setConstraints and unsetConstraints
ConstraintSetters == {"setConstraints", "unsetConstraints", "repeatConstraints"}

\* the call gives every constraint it names the value the constraint has
Repeating(name, arg, c) ==
    IF name = "unsetConstraints" THEN \A key \in arg : c[key] = None
    ELSE \A key \in DOMAIN arg : c[key] = arg[key]

C22_Step ==
    (op'.name \in ConstraintSetters /\ Repeating(op'.name, op'.arg, cfg)) =>
        /\ cfg' = cfg
        /\ sdpRelaxation' = sdpRelaxation
        /\ outdatedSdpRelaxation' = outdatedSdpRelaxation
        /\ heap' = heap
        /\ hamiltonian' = hamiltonian
        /\ store' = store
        /\ log' = << >>
        /\ err' = "none"

\* C22: unsetConstraints of constraints that are not set and setConstraints
\* of constraints to the values they have invalidate nothing: the slot, the
\* outdated slot, the relaxation objects with their status and the cached
\* Hamiltonian are as before the call
C22_RepeatedConstraintKeeps == [][C22_Step]_vars

\* setConstraints repeated the value of a set constraint while a solved
\* relaxation was in the slot
C22_Witness ==
    /\ op.name = "repeatConstraints"
    /\ \E key \in DOMAIN op.arg : op.arg[key] # None
    /\ sdpRelaxation # NoRef
    /\ Current.status = "solved"
    /\ hamiltonian # None

\* C23: once getSdp() has put a relaxation into the slot, recycled or
\* generated, the outdated slot is empty; it is filled again only by the
\* next invalidation of a filled slot, which empties the slot
C23_OutdatedUsedOnce ==
    sdpRelaxation # NoRef => outdatedSdpRelaxation = NoRef

\* setParameters has just invalidated a relaxation of the present level and
\* constraints
AfterParameters ==
    /\ op.name = "setParameters"
    /\ sdpRelaxation = NoRef
    /\ outdatedSdpRelaxation # NoRef
    /\ heap[outdatedSdpRelaxation][1].level = cfg.level
    /\ heap[outdatedSdpRelaxation][1].cons = Constraints(cfg)

C24_Step ==
    (AfterParameters /\ op'.name \in {"getSdp", "solve"}) =>
        /\ HasEvent(log', "createSdp")
        /\ ~HasOutcome(log', "process_constraints", "AttributeError")
        /\ HasEvent(log', "get_relaxation") <=>
              HasOutcome(log', "process_constraints", "fail")
        /\ err' \in {"none", "SolverError"} =>
              \/ LoadedSolved(log')
              \/ HasOutcome(log', "process_constraints", "ok")
              \/ HasOutcome(log', "process_constraints", "fail")
        /\ HasOutcome(log', "process_constraints", "ok") =>
              /\ heap'[sdpRelaxation'][1].level = cfg.level
              /\ heap'[sdpRelaxation'][1].cons = Constraints(cfg)

C25_SlotHasCurrentLevel ==
    sdpRelaxation # NoRef => Current.level = cfg.level

\* C26: without an output directory getSdp() raises no error and returns
\* the relaxation it recycled or generated, and no directory or file is
\* created
C26_PersistenceDisabled ==
    (outputDir = None /\ op.name = "getSdp") =>
        /\ err = "none"
        /\ sdpRelaxation # NoRef
        /\ ret = heap[sdpRelaxation]
        /\ store = << >>
        /\ ~dirExists

====
